---- MODULE Spec2Model ----
(***************************************************************************)
(* Model of the DolarAPI multi-agent pipeline:                             *)
(*   MultiAgentOrchestratorDolar (orchestrator_dolar.py) and the parts of  *)
(*   DolarAPICollector, DolarAnalystAgent and PDFGeneratorAgent that       *)
(*   decide what the orchestrator records.                                 *)
(*                                                                         *)
(* Python values are modelled as follows.                                  *)
(*   dict with fixed keys      a TLA+ record; a key is absent when it is   *)
(*                             not in the DOMAIN                           *)
(*   results['steps']          an insertion-ordered dict: a sequence of    *)
(*                             <<key, value>> pairs                        *)
(*   Optional[T]               <<>> for None, <<v>> for a value v          *)
(*   an item of the answer     one of QuoteKinds (see below)               *)
(*   datetime.now()            the clock `now`, in whole seconds           *)
(*   the working directory     `files`, a function from path to content    *)
(***************************************************************************)
EXTENDS Integers, Sequences, FiniteSets, TLC

\* Bounds of the model.
MaxQuotes == 1      \* longest quote list the API returns
MaxRuns == 2        \* calls of execute_full_analysis on the one orchestrator
MaxTime == 1        \* last value of the clock
MaxSaves == 3       \* calls of save_to_csv on the one CSV file

VARIABLES
    execution_log,  \* self.execution_log
    now,            \* the wall clock read by datetime.now()
    files,          \* the files under the working directory: path -> content
    runs,           \* calls of execute_full_analysis made so far
    pc,             \* where the current call of execute_full_analysis stands
    results,        \* its local dict `results`
    dolar_data,     \* its local `dolar_data` (Optional)
    report_file,    \* its local `report_file` (Optional)
    temp_data_file, \* the local `temp_data_file` of _execute_dolar_analysis (Optional)
    inflight,       \* the stage executors that were called and have not returned
    calls,          \* the stage executors it has invoked so far, in order
    handed,         \* the argument each of these invocations was given
    raisedIn,       \* the stages whose collaborator raised during it, and
                    \* "language_model" when assistant_agent.run raised
    log_start,      \* len(execution_log) when the current call began
    collected,      \* line 167 of the current call: the value get_dolar_data
                    \* returned to the executor (Optional)
    agents,         \* self.agents: the keys of the dict, in insertion order
    host,           \* the host script: its environment and where it stands
    status_report,  \* the value get_system_status returned last (Optional)
    csv_calls       \* the calls of save_to_csv made on csv_file, in order

\* the state of the host and of the callers of the orchestrator's other methods
hostVars == <<agents, host, status_report, csv_calls>>

vars == <<execution_log, now, files, runs, pc, results, dolar_data, report_file,
          temp_data_file, inflight, calls, handed, raisedIn, log_start, collected,
          hostVars>>

-----------------------------------------------------------------------------
\* Python helpers

None == <<>>
Some(v) == <<v>>

\* `if x:` for an Optional[List]
TruthyList(opt) == opt # None /\ opt[1] # <<>>

Range(seq) == {seq[i] : i \in 1..Len(seq)}

\* `if x:` for an Optional[str]
TruthyStr(opt) == opt # None /\ opt[1] # ""

\* d[k] = v on a dict with fixed keys
Put(d, k, v) == [a \in DOMAIN d \cup {k} |-> IF a = k THEN v ELSE d[a]]

\* keys of an insertion-ordered dict, in order
Keys(od) == [i \in 1..Len(od) |-> od[i][1]]

HasKey(od, k) == \E i \in 1..Len(od) : od[i][1] = k

Get(od, k) == od[CHOOSE i \in 1..Len(od) : od[i][1] = k][2]

\* mutant: a new key goes to the front of the dict
SetItem_AtFront(od, k, v) ==
    IF HasKey(od, k)
    THEN [i \in 1..Len(od) |-> IF od[i][1] = k THEN <<k, v>> ELSE od[i]]
    ELSE <<<<k, v>>>> \o od

\* od[k] = v: replaces the value in place when k is present, appends otherwise
SetItem(od, k, v) ==
    IF HasKey(od, k)
    THEN [i \in 1..Len(od) |-> IF od[i][1] = k THEN <<k, v>> ELSE od[i]]
    ELSE Append(od, <<k, v>>)

\* open(path, 'w') and write: creates the file or replaces its content
WriteFile(fs, path, content) ==
    [q \in DOMAIN fs \cup {path} |-> IF q = path THEN content ELSE fs[q]]

\* os.remove(path) under `except: pass`: no effect when the file is absent
RemoveFile(fs, path) ==
    [q \in DOMAIN fs \ {path} |-> fs[q]]

-----------------------------------------------------------------------------
\* Inputs from the environment

\* An item of the API's answer:
\*   "plain"      a quote record: every field is set and printable
\*   "null_price" a quote record whose compra or venta is null
\*   "odd_char"   a quote record in which a field that display_data does not
\*                print (casa, moneda) holds a character the console encoding
\*                cannot encode
\*   "no_fields"  a JSON object that is no quote record: it has none of the
\*                fields nombre, compra, venta, fechaActualizacion
\*   "not_a_dict" anything without .get: an item of a list of numbers or
\*                strings, a key of a JSON object, a character of a JSON string
QuoteKinds == {"plain", "null_price", "odd_char", "no_fields", "not_a_dict"}

\* the items that are quote records
QuoteRecords == {"plain", "null_price", "odd_char"}

RECURSIVE SeqsUpTo(_, _)
SeqsUpTo(S, n) ==
    IF n = 0 THEN {<<>>}
    ELSE LET shorter == SeqsUpTo(S, n - 1)
         IN shorter \cup {Append(s, x) : s \in {t \in shorter : Len(t) = n - 1}, x \in S}

\* The lists the API answers with: quote records, the last of which may be
\* one of the other kinds of item
Payloads ==
    {b \in SeqsUpTo(QuoteKinds, MaxQuotes) : \A i \in 1..(Len(b) - 1) : b[i] = "plain"}

\* What session.get(...) / response.json() does: a network or HTTP error or a
\* timeout, a body that is not JSON, a JSON value without len() (a number,
\* null, true), or a JSON value that can be iterated, given by its items.
Responses ==
    {[kind |-> "request_error", body |-> <<>>], [kind |-> "bad_json", body |-> <<>>],
     [kind |-> "json_scalar", body |-> <<>>]}
    \cup {[kind |-> "json", body |-> b] : b \in Payloads}

\* What analyst.run does for the orchestrator: the report is written, the
\* write of the report fails, or the call raises.
AnalystOutcomes == {"saved", "write_failed", "raises"}

\* What pdf_agent.run does: the PDF is built, building fails, or the call raises.
PdfOutcomes == {"built", "build_failed", "raises"}

-----------------------------------------------------------------------------
\* DolarAPICollector

get_dolar_data(resp) ==
    IF resp.kind = "json" THEN resp.body ELSE <<>>

csv_file == "dolar_historico.csv"

\* the rows save_to_csv writes before item.get raises, if it does
CsvRows(data) ==
    IF \E i \in 1..Len(data) : data[i] = "not_a_dict"
    THEN (CHOOSE i \in 1..Len(data) :
              /\ data[i] = "not_a_dict"
              /\ \A j \in 1..(i - 1) : data[j] # "not_a_dict") - 1
    ELSE Len(data)

\* save_to_csv's return value: False without data, when the file cannot be
\* opened and when item.get raises
save_to_csv_result(data, ok) ==
    data # <<>> /\ ok /\ CsvRows(data) = Len(data)

\* mutant: the header is written by every call
save_to_csv_AlwaysHeader(fs, data, ok) ==
    IF data = <<>> \/ ~ok THEN fs
    ELSE LET old == IF csv_file \in DOMAIN fs THEN fs[csv_file] ELSE <<>>
         IN  WriteFile(fs, csv_file,
                       old \o <<"header">> \o [i \in 1..CsvRows(data) |-> "row"])

\* save_to_csv: appends one row per quote, after a header when the file is
\* new; nothing is written when there is no data or the file cannot be opened
save_to_csv(fs, data, ok) ==
    IF data = <<>> \/ ~ok THEN fs
    ELSE LET old == IF csv_file \in DOMAIN fs THEN fs[csv_file] ELSE <<"header">>
         IN  WriteFile(fs, csv_file, old \o [i \in 1..CsvRows(data) |-> "row"])

SnapshotPath(t) == "data/dolar_data_" \o ToString(t) \o ".json"

\* save_to_json: writes the snapshot named after the current second
save_to_json(fs, data, ok, t) ==
    IF data = <<>> \/ ~ok THEN fs
    ELSE WriteFile(fs, SnapshotPath(t),
                   [fuente |-> "DolarAPI", total_cotizaciones |-> Len(data)])

\* display_data formats compra and venta with f"{compra:<10}", which raises
\* TypeError on None; item.get raises AttributeError on an item without .get
display_data_raises(data) ==
    \E i \in 1..Len(data) : data[i] \in {"null_price", "not_a_dict"}

-----------------------------------------------------------------------------
\* DolarAnalystAgent and PDFGeneratorAgent

ReportPath(t) == "reports/dolar_report_" \o ToString(t) \o ".json"

PdfPath(t) == "presentations/dolar_report_" \o ToString(t) \o ".pdf"


\* _generate_executive_summary: the model's text, or the fixed sentence when
\* assistant_agent.run raised
_generate_executive_summary(llm_ok) ==
    IF llm_ok THEN "summary" ELSE "No se pudo generar el resumen ejecutivo."

\* _analyze_cotizations (as _analyze_exchange_gaps, _analyze_trends): the
\* section of the report, {'error': str(e)} when assistant_agent.run raised
_analyze_cotizations(llm_ok) ==
    IF llm_ok THEN [analysis |-> "text"] ELSE [error |-> "llm"]

\* analyze_dolar_data, lines 66-73: the report of a readable, non-empty data file
analyze_dolar_data(llm_ok) ==
    [data_source |-> "DolarAPI",
     cotizations_analysis |-> _analyze_cotizations(llm_ok),
     summary |-> _generate_executive_summary(llm_ok)]

\* mutant: run gives up when the report holds an error section
analyst_run_ChecksSections(outcome, llm_ok, t) ==
    LET report == analyze_dolar_data(llm_ok)
    IN  IF "error" \notin DOMAIN report.cotizations_analysis /\ outcome = "saved"
        THEN ReportPath(t)
        ELSE ""

\* DolarAnalystAgent.run: a report that is not empty is saved, and the result
\* is the path save_report returns, "" when the write failed
analyst_run(outcome, llm_ok, t) ==
    LET report == analyze_dolar_data(llm_ok)
    IN  IF DOMAIN report # {} /\ outcome = "saved" THEN ReportPath(t) ELSE ""

\* the report save_report writes; of its content the model keeps data_source
analyst_files(fs, outcome, t) ==
    IF outcome = "saved"
    THEN WriteFile(fs, ReportPath(t), [data_source |-> "DolarAPI"])
    ELSE fs

\* mutant: _generate_pdf's handler returns the path it had computed
pdf_run_PathOnFailure(outcome, t) ==
    PdfPath(t)

\* PDFGeneratorAgent.run: the path of the PDF, "" when create_pdf_report failed
pdf_run(outcome, t) ==
    IF outcome = "built" THEN PdfPath(t) ELSE ""

\* the PDF _generate_pdf builds
pdf_files(fs, outcome, t) ==
    IF outcome = "built"
    THEN WriteFile(fs, PdfPath(t), [pagesize |-> "A4"])
    ELSE fs

-----------------------------------------------------------------------------
\* MultiAgentOrchestratorDolar

\* the stages of execute_full_analysis and their executors, in program order
StageOrder == <<"dolar_collection", "dolar_analysis", "pdf_generation">>

ExecutorOrder ==
    <<"_execute_dolar_collector", "_execute_dolar_analysis", "_execute_pdf_generation">>

\* mutant: the exception of display_data is swallowed and the data returned
_execute_dolar_collector_KeepsData(resp) ==
    LET data == get_dolar_data(resp)
    IN  IF data # <<>> THEN Some(data) ELSE None

_execute_dolar_collector(resp) ==
    LET data == get_dolar_data(resp)
    IN  IF data # <<>>
        THEN IF display_data_raises(data) THEN None ELSE Some(data)
        ELSE None

\* the files _execute_dolar_collector leaves: CSV and snapshot are written
\* before display_data runs, whatever display_data does
collector_files(fs, resp, csv_ok, json_ok, t) ==
    LET data == get_dolar_data(resp)
    IN  save_to_json(save_to_csv(fs, data, csv_ok), data, json_ok, t)

TempPath(t) == "data/dolar_data_" \o ToString(t) \o ".json"

\* _create_temp_data_file: the file handed to the analyst
_create_temp_data_file(fs, data, t) ==
    WriteFile(fs, TempPath(t),
              [data_type |-> "dolar_cotizations_only", pair |-> "USD/ARS"])

\* lines 197-200: the temporary file _execute_dolar_analysis creates before it
\* awaits the analyst, None when it could not be created
temp_file(temp_ok, t) ==
    IF temp_ok THEN Some(TempPath(t)) ELSE None

temp_files(fs, data, temp_ok, t) ==
    IF temp_ok THEN _create_temp_data_file(fs, data, t) ELSE fs

\* the files _execute_dolar_analysis leaves once the analyst is done: the
\* temporary file is removed after analyst.run returns, and stays when
\* analyst.run raises
analysis_files(fs, temp, outcome, t) ==
    IF temp = None THEN fs
    ELSE IF outcome = "raises" THEN fs
    ELSE RemoveFile(analyst_files(fs, outcome, t), temp[1])

_execute_dolar_analysis(temp, outcome, llm_ok, t) ==
    IF temp = None THEN None
    ELSE IF outcome = "raises" THEN None
    ELSE LET result == analyst_run(outcome, llm_ok, t)
         IN  IF result # "" THEN Some(result) ELSE None

_execute_pdf_generation(outcome, t) ==
    IF outcome = "raises" THEN None
    ELSE LET result == pdf_run(outcome, t)
         IN  IF result # "" THEN Some(result) ELSE None

_log_step(log, step, status, details, t) ==
    Append(log, [step |-> step, status |-> status, details |-> details, timestamp |-> t])

\* print(f"... {data['output_data']} cotizaciones") writes the repr of the quote
\* list to stdout: UnicodeEncodeError when the console cannot encode it
summary_print_raises(steps) ==
    /\ HasKey(steps, "dolar_collection")
    /\ Get(steps, "dolar_collection").status = "success"
    /\ \E i \in 1..Len(Get(steps, "dolar_collection").output_data) :
           Get(steps, "dolar_collection").output_data[i] = "odd_char"

SuccessData(data, t) == [status |-> "success", output_data |-> data, timestamp |-> t]

\* mutant: a success record built from a template that also carries `error`
SuccessFile_WithError(file, t) ==
    [status |-> "success", output_file |-> file, error |-> "", timestamp |-> t]

SuccessFile(file, t) == [status |-> "success", output_file |-> file, timestamp |-> t]

Failed(msg) == [status |-> "failed", error |-> msg]

FinalStatus(errors) ==
    IF errors = <<>> THEN "completed" ELSE "completed_with_errors"

\* lines 127-132
Finalize(res, t) ==
    Put(Put(Put(res, "end_time", t),
            "execution_time_seconds", t - res.start_time),
        "status", FinalStatus(res.errors))

\* mutant: the handler starts `errors` afresh
CriticalHandler_ResetsErrors(res, e, t) ==
    Put([res EXCEPT !.status = "failed",
                    !.errors = <<"Error critico: " \o e>>],
        "end_time", t)

\* lines 153-158
CriticalHandler(res, e, t) ==
    Put([res EXCEPT !.status = "failed",
                    !.errors = Append(res.errors, "Error critico: " \o e)],
        "end_time", t)

\* lines 67-79: the step record and the errors entry of stage 1
RecordCollection(res, data, t) ==
    IF TruthyList(data)
    THEN [res EXCEPT !.steps = SetItem(@, "dolar_collection", SuccessData(data[1], t))]
    ELSE [res EXCEPT !.steps = SetItem(@, "dolar_collection",
                                   Failed("No se pudieron obtener datos de DolarAPI")),
                     !.errors = Append(@, "Recoleccion de datos DolarAPI fallo")]

\* lines 73 and 80
LogCollection(log, data, t) ==
    IF TruthyList(data)
    THEN _log_step(log, "dolar_collection", "success",
                   "Datos obtenidos: " \o ToString(Len(data[1])) \o " cotizaciones", t)
    ELSE _log_step(log, "dolar_collection", "failed", "No se obtuvieron datos de DolarAPI", t)

\* lines 67 and 81: stage 2 follows unless stage 1 failed, and then the call returns
AfterCollection(data) ==
    IF TruthyList(data) THEN "analysis" ELSE "returned"

\* lines 89-101
RecordAnalysis(res, file, t) ==
    IF TruthyStr(file)
    THEN [res EXCEPT !.steps = SetItem(@, "dolar_analysis", SuccessFile(file[1], t))]
    ELSE [res EXCEPT !.steps = SetItem(@, "dolar_analysis",
                         Failed("No se pudo completar el analisis de datos de DolarAPI")),
                     !.errors = Append(@, "Analisis de DolarAPI fallo")]

\* lines 95 and 102
LogAnalysis(log, file, t) ==
    IF TruthyStr(file)
    THEN _log_step(log, "dolar_analysis", "success", file[1], t)
    ELSE _log_step(log, "dolar_analysis", "failed", "Analisis incompleto", t)

\* mutant: a failed analysis is tried again
AfterAnalysis_Retry(file) ==
    IF TruthyStr(file) THEN "pdf" ELSE "analysis"

\* mutant: the `return results` of line 103 is missing
AfterAnalysis_NoReturn(file) == "pdf"

\* lines 89 and 103
AfterAnalysis(file) ==
    IF TruthyStr(file) THEN "pdf" ELSE "returned"

\* mutant: the analysis is started as a background task and not awaited
AwaitAnalysis_NotAwaited == "pdf"

\* line 88: `await self._execute_dolar_analysis(dolar_data)` suspends the call
\* until the executor has returned
AwaitAnalysis == "analysing"

\* line 88: the argument of _execute_dolar_analysis
AnalysisInput(data) == data

\* mutant: the PDF stage is given a fixed report name
PdfInput_Fixed(file) == Some("reports/dolar_report.json")

\* line 110: the argument of _execute_pdf_generation
PdfInput(file) == file

\* mutant: a failed PDF stage adds its error but writes no step record
RecordPdf_NoFailedRecord(res, file, t) ==
    IF TruthyStr(file)
    THEN [res EXCEPT !.steps = SetItem(@, "pdf_generation", SuccessFile(file[1], t))]
    ELSE [res EXCEPT !.errors = Append(@, "Generacion de PDF fallo")]

\* lines 111-123
RecordPdf(res, file, t) ==
    IF TruthyStr(file)
    THEN [res EXCEPT !.steps = SetItem(@, "pdf_generation", SuccessFile(file[1], t))]
    ELSE [res EXCEPT !.steps = SetItem(@, "pdf_generation", Failed("No se pudo generar el PDF")),
                     !.errors = Append(@, "Generacion de PDF fallo")]

\* mutant: a failed PDF stage is not logged
LogPdf_OnlySuccess(log, file, t) ==
    IF TruthyStr(file)
    THEN _log_step(log, "pdf_generation", "success", file[1], t)
    ELSE log

\* lines 117 and 124
LogPdf(log, file, t) ==
    IF TruthyStr(file)
    THEN _log_step(log, "pdf_generation", "success", file[1], t)
    ELSE _log_step(log, "pdf_generation", "failed", "PDF no generado", t)

\* line 291: the number of log entries get_system_status reports
RecentLogs == 5

\* mutant: the slice [:5]
last_execution_log_Oldest(log) ==
    IF Len(log) <= RecentLogs THEN log ELSE SubSeq(log, 1, RecentLogs)

\* get_system_status, line 291: self.execution_log[-5:]
last_execution_log(log) ==
    IF Len(log) <= RecentLogs THEN log
    ELSE SubSeq(log, Len(log) - RecentLogs + 1, Len(log))

\* _initialize_agents, lines 39-41: the keys of self.agents, in the order set
AgentNames == <<"dolar_collector", "dolar_analyst", "pdf_generator">>

\* the orchestrator is used by a caller that is none of the host scripts
NoHost == [script |-> "none"]

\* get_system_status, lines 288-294
get_system_status(ags, log) ==
    [agents_initialized |-> Len(ags),
     available_agents |-> ags,
     last_execution_log |-> last_execution_log(log),
     system_ready |-> (Len(ags) = 3),
     mode |-> "dolar_api"]

Init ==
    /\ execution_log = <<>>
    /\ now = 0
    /\ files = <<>>
    /\ runs = 0
    /\ pc = "idle"
    /\ results = <<>>
    /\ dolar_data = None
    /\ report_file = None
    /\ temp_data_file = None
    /\ inflight = {}
    /\ calls = <<>>
    /\ handed = <<>>
    /\ raisedIn = {}
    /\ log_start = 0
    /\ collected = None
    /\ agents = AgentNames
    /\ host = NoHost
    /\ status_report = None
    /\ csv_calls = <<>>

\* Time passes. The clock is read in whole seconds; a second ends between two
\* calls, or between the collector's return and the creation of the temporary
\* file. These are the places where the second decides something: the paths of
\* the snapshot, of the temporary file and of the files of successive calls,
\* and the duration of a call.
Tick ==
    /\ now < MaxTime
    /\ pc \in {"returned", "analysis"}
    /\ now' = now + 1
    /\ UNCHANGED <<execution_log, files, runs, pc, results, dolar_data, report_file,
                   temp_data_file, inflight, calls, handed, raisedIn, log_start>>
    /\ UNCHANGED <<collected, hostVars>>

\* lines 50-58: execute_full_analysis is entered, on a fresh orchestrator or
\* once the previous call has returned
BeginRun ==
    /\ pc \in {"idle", "returned"}
    /\ runs < MaxRuns
    /\ runs' = runs + 1
    /\ results' = [start_time |-> now, status |-> "running", steps |-> <<>>, errors |-> <<>>]
    /\ dolar_data' = None
    /\ report_file' = None
    /\ temp_data_file' = None
    /\ calls' = <<>>
    /\ handed' = <<>>
    /\ raisedIn' = {}
    /\ log_start' = Len(execution_log)
    /\ pc' = "collect"
    /\ UNCHANGED <<execution_log, now, files, inflight>>
    /\ collected' = None

\* a caller that is none of the host scripts calls execute_full_analysis; the
\* status it may have asked for before is out of date from here on
StartRun ==
    /\ host = NoHost
    /\ BeginRun
    /\ status_report' = None
    /\ UNCHANGED <<agents, host, csv_calls>>

\* lines 66-81; the collector is synchronous code: the executor runs from its
\* call to its return without suspending
CollectStage ==
    /\ pc = "collect"
    /\ inflight = {}
    /\ \E resp \in Responses, writable \in BOOLEAN :
         LET data == _execute_dolar_collector(resp)
         IN  /\ calls' = Append(calls, "_execute_dolar_collector")
             /\ handed' = Append(handed, None)
             /\ files' = collector_files(files, resp, writable, writable, now)
             /\ raisedIn' = IF display_data_raises(get_dolar_data(resp))
                            THEN raisedIn \cup {"dolar_collection"} ELSE raisedIn
             /\ dolar_data' = data
             /\ collected' = Some(get_dolar_data(resp))
             /\ results' = RecordCollection(results, data, now)
             /\ execution_log' = LogCollection(execution_log, data, now)
             /\ pc' = AfterCollection(data)
    /\ UNCHANGED <<now, runs, report_file, temp_data_file, inflight, log_start>>
    /\ UNCHANGED hostVars

\* lines 88 and 191-205: the executor is called, writes the temporary file and
\* awaits the analyst, whose calls of the language model suspend it
AnalysisBegin ==
    /\ pc = "analysis"
    /\ \E temp_ok \in BOOLEAN :
         /\ temp_data_file' = temp_file(temp_ok, now)
         /\ files' = temp_files(files, AnalysisInput(dolar_data)[1], temp_ok, now)
    /\ calls' = Append(calls, "_execute_dolar_analysis")
    /\ handed' = Append(handed, AnalysisInput(dolar_data))
    /\ inflight' = inflight \cup {"_execute_dolar_analysis"}
    /\ pc' = AwaitAnalysis
    /\ UNCHANGED <<execution_log, now, runs, results, dolar_data, report_file,
                   raisedIn, log_start>>
    /\ UNCHANGED <<collected, hostVars>>

\* lines 205-221 and 89-103: the analyst is done, the executor returns and the
\* stage is recorded
AnalysisEnd ==
    /\ pc = "analysing"
    /\ \E outcome \in AnalystOutcomes, llm_ok \in BOOLEAN :
         LET file == _execute_dolar_analysis(temp_data_file, outcome, llm_ok, now)
         IN  /\ files' = analysis_files(files, temp_data_file, outcome, now)
             /\ raisedIn' = raisedIn
                    \cup (IF temp_data_file # None /\ outcome = "raises"
                          THEN {"dolar_analysis"} ELSE {})
                    \cup (IF temp_data_file # None /\ ~llm_ok
                          THEN {"language_model"} ELSE {})
             /\ report_file' = file
             /\ results' = RecordAnalysis(results, file, now)
             /\ execution_log' = LogAnalysis(execution_log, file, now)
             /\ pc' = AfterAnalysis(file)
    /\ inflight' = inflight \ {"_execute_dolar_analysis"}
    /\ temp_data_file' = None
    /\ UNCHANGED <<now, runs, dolar_data, calls, handed, log_start>>
    /\ UNCHANGED <<collected, hostVars>>

\* lines 110-124: the PDF agent never suspends on a collaborator, so the
\* executor runs from its call to its return in one step
PdfStage ==
    /\ pc = "pdf"
    /\ \E outcome \in PdfOutcomes :
         LET file == _execute_pdf_generation(outcome, now)
         IN  /\ calls' = Append(calls, "_execute_pdf_generation")
             /\ handed' = Append(handed, PdfInput(report_file))
             /\ files' = pdf_files(files, outcome, now)
             /\ raisedIn' = IF outcome = "raises"
                            THEN raisedIn \cup {"pdf_generation"} ELSE raisedIn
             /\ execution_log' = LogPdf(execution_log, file, now)
             /\ results' = RecordPdf(results, file, now)
             /\ pc' = "finish"
    /\ UNCHANGED <<now, runs, dolar_data, report_file, temp_data_file, inflight, log_start>>
    /\ UNCHANGED <<collected, hostVars>>

\* lines 127-158: the result is finished and the summary printed; when a
\* print raises, the handler of line 153 takes over
Finish ==
    /\ pc = "finish"
    /\ LET finished == Finalize(results, now)
       IN  results' =
               IF summary_print_raises(finished.steps)
               THEN CriticalHandler(finished, "UnicodeEncodeError", now)
               ELSE finished
    /\ pc' = "returned"
    /\ UNCHANGED <<execution_log, now, files, runs, dolar_data, report_file,
                   temp_data_file, inflight, calls, handed, raisedIn, log_start>>
    /\ UNCHANGED <<collected, hostVars>>

Next ==
    \/ Tick
    \/ StartRun
    \/ CollectStage
    \/ AnalysisBegin
    \/ AnalysisEnd
    \/ PdfStage
    \/ Finish

Spec == Init /\ [][Next]_vars

-----------------------------------------------------------------------------
\* The host scripts: run_dolar_analysis.main, run_dolar.main (the same code
\* under another root) and orchestrator_dolar.main

ValidatingScripts == {"run_dolar_analysis", "run_dolar"}

HostScripts == ValidatingScripts \cup {"orchestrator_dolar"}

\* Config.DATA_DIR, REPORTS_DIR and PRESENTATIONS_DIR, in validate_config's order
ConfigDirs == <<"DATA_DIR", "REPORTS_DIR", "PRESENTATIONS_DIR">>

\* GOOGLE_API_KEY in the environment: unset, empty or set
ApiKeys == {None, Some(""), Some("key")}

\* mutant: validate_config checks the key only
validate_config_KeyOnly(api_key, blocked) ==
    IF ~TruthyStr(api_key) THEN <<"GOOGLE_API_KEY no configurada">> ELSE <<>>

\* Config.validate_config: the list of errors; `blocked` are the directories
\* that do not exist and that os.makedirs cannot create
validate_config(api_key, blocked) ==
    (IF ~TruthyStr(api_key) THEN <<"GOOGLE_API_KEY no configurada">> ELSE <<>>)
    \o SelectSeq(ConfigDirs, LAMBDA d : d \in blocked)

\* mutant: _initialize_agents logs the exception and goes on
_initialize_agents_Swallows(n) ==
    [agents |-> SubSeq(AgentNames, 1, n), raised |-> FALSE]

\* __init__ and _initialize_agents when the constructors of the first n agents
\* return and the next one, if any, raises: the dict filled so far, and
\* whether the exception leaves __init__ (line 46)
_initialize_agents(n) ==
    [agents |-> SubSeq(AgentNames, 1, n), raised |-> n < Len(AgentNames)]

\* main begins: the environment of the process
InitHost ==
    /\ execution_log = <<>>
    /\ now = 0
    /\ files = <<>>
    /\ runs = 0
    /\ pc = "idle"
    /\ results = <<>>
    /\ dolar_data = None
    /\ report_file = None
    /\ temp_data_file = None
    /\ inflight = {}
    /\ calls = <<>>
    /\ handed = <<>>
    /\ raisedIn = {}
    /\ log_start = 0
    /\ collected = None
    /\ agents = <<>>
    /\ status_report = None
    /\ csv_calls = <<>>
    /\ \E script \in HostScripts, api_key \in ApiKeys, blocked \in SUBSET Range(ConfigDirs) :
         host = [script |-> script, api_key |-> api_key, blocked |-> blocked,
                 at |-> "main", trace |-> <<>>, orchestrator |-> FALSE]

pipelineVars == <<execution_log, now, files, runs, pc, results, dolar_data,
                  report_file, temp_data_file, inflight, calls, handed, raisedIn,
                  log_start, collected>>

\* run_dolar_analysis.main lines 69-80 (run_dolar.main 67-78): validate_config,
\* and return when it reports errors
HostValidate ==
    /\ host.script \in ValidatingScripts
    /\ host.at = "main"
    /\ LET config_errors == validate_config(host.api_key, host.blocked)
       IN  host' = [host EXCEPT !.trace = Append(@, "validate_config"),
                                !.at = IF config_errors # <<>> THEN "done"
                                       ELSE "configured"]
    /\ UNCHANGED <<pipelineVars, agents, status_report, csv_calls>>

\* orchestrator_dolar.main lines 303-307: return when the key is not set
HostCheckKey ==
    /\ host.script = "orchestrator_dolar"
    /\ host.at = "main"
    /\ host' = [host EXCEPT !.at = IF ~TruthyStr(host.api_key) THEN "done"
                                   ELSE "configured"]
    /\ UNCHANGED <<pipelineVars, agents, status_report, csv_calls>>

\* MultiAgentOrchestratorDolar(api_key), in run_complete_analysis line 39 and
\* in orchestrator_dolar.main line 311; an exception of __init__ ends in the
\* caller's handler, which prints and returns
HostConstruct ==
    /\ host.script \in HostScripts
    /\ host.at = "configured"
    /\ \E n \in 0..Len(AgentNames) :
         LET made == _initialize_agents(n)
         IN  /\ agents' = made.agents
             /\ host' = [host EXCEPT !.trace = Append(@, "MultiAgentOrchestratorDolar"),
                                      !.orchestrator = ~made.raised,
                                      !.at = IF made.raised THEN "done"
                                             ELSE "constructed"]
    /\ UNCHANGED <<pipelineVars, status_report, csv_calls>>

\* orchestrator_dolar.main lines 314-319: ask for the status and return when
\* the system is not ready
HostStatus ==
    /\ host.script = "orchestrator_dolar"
    /\ host.at = "constructed"
    /\ LET status == get_system_status(agents, execution_log)
       IN  /\ status_report' = Some(status)
           /\ host' = [host EXCEPT !.trace = Append(@, "get_system_status"),
                                    !.at = IF ~status.system_ready THEN "done"
                                           ELSE "ready"]
    /\ UNCHANGED <<pipelineVars, agents, csv_calls>>

\* the script calls execute_full_analysis (run_complete_analysis line 40,
\* orchestrator_dolar.main line 322)
HostExecute ==
    /\ \/ host.script \in ValidatingScripts /\ host.at = "constructed"
       \/ host.script = "orchestrator_dolar" /\ host.at = "ready"
    /\ BeginRun
    /\ host' = [host EXCEPT !.trace = Append(@, "execute_full_analysis"),
                             !.at = "executing"]
    /\ UNCHANGED <<agents, status_report, csv_calls>>

ExecutionLogPath(t) == "execution_log_dolar_" \o ToString(t) \o ".json"

\* the call has returned: the script prints the result; orchestrator_dolar.main
\* then writes it to execution_log_dolar_<timestamp>.json (lines 348-350)
\* unless the print of line 338 raised
HostFinish ==
    /\ host.script \in HostScripts
    /\ host.at = "executing"
    /\ pc = "returned"
    /\ host' = [host EXCEPT !.at = "done"]
    /\ files' = IF host.script = "orchestrator_dolar" /\ ~summary_print_raises(results.steps)
                THEN WriteFile(files, ExecutionLogPath(now), [status |-> results.status])
                ELSE files
    /\ UNCHANGED <<execution_log, now, runs, pc, results, dolar_data, report_file,
                   temp_data_file, inflight, calls, handed, raisedIn, log_start,
                   collected, agents, status_report, csv_calls>>

\* time passes while the host runs the pipeline
HostTick ==
    /\ host.script \in HostScripts
    /\ host.at = "executing"
    /\ Tick

NextHost ==
    \/ HostValidate
    \/ HostCheckKey
    \/ HostConstruct
    \/ HostStatus
    \/ HostExecute
    \/ HostTick
    \/ CollectStage
    \/ AnalysisBegin
    \/ AnalysisEnd
    \/ PdfStage
    \/ Finish
    \/ HostFinish

SpecHost == InitHost /\ [][NextHost]_vars

-----------------------------------------------------------------------------
\* A caller that asks for the status between its calls of execute_full_analysis

\* get_system_status, called while no call of execute_full_analysis is under
\* way; the method assigns nothing
GetSystemStatus ==
    /\ host = NoHost
    /\ pc \in {"idle", "returned"}
    /\ status_report' = Some(get_system_status(agents, execution_log))
    /\ UNCHANGED <<pipelineVars, agents, host, csv_calls>>

\* time passes between two calls of the caller; what the status reports does
\* not depend on the seconds that pass within a run
StatusTick ==
    /\ pc = "returned"
    /\ Tick

NextStatus ==
    \/ StatusTick
    \/ StartRun
    \/ CollectStage
    \/ AnalysisBegin
    \/ AnalysisEnd
    \/ PdfStage
    \/ Finish
    \/ GetSystemStatus

SpecStatus == Init /\ [][NextStatus]_vars

-----------------------------------------------------------------------------
\* A caller of DolarAPICollector.save_to_csv, starting without the CSV file

\* the lines of the CSV file, none when the file does not exist
CsvLines(fs) == IF csv_file \in DOMAIN fs THEN fs[csv_file] ELSE <<>>

\* save_to_csv(data); `ok`: the file can be opened for appending
SaveToCsv ==
    /\ host = NoHost
    /\ pc = "idle"
    /\ Len(csv_calls) < MaxSaves
    /\ \E data \in Payloads, ok \in BOOLEAN :
         /\ files' = save_to_csv(files, data, ok)
         /\ csv_calls' = Append(csv_calls,
                                [data |-> data,
                                 returned |-> save_to_csv_result(data, ok),
                                 before |-> Len(CsvLines(files)),
                                 after |-> Len(CsvLines(files'))])
    /\ UNCHANGED <<execution_log, now, runs, pc, results, dolar_data, report_file,
                   temp_data_file, inflight, calls, handed, raisedIn, log_start,
                   collected, agents, host, status_report>>

NextCsv == SaveToCsv

SpecCsv == Init /\ [][NextCsv]_vars

-----------------------------------------------------------------------------
\* Vocabulary of the properties

\* a call is under way or has returned: `results` exists
Called == pc # "idle"

Returned == pc = "returned"

StepNames == IF Called THEN Keys(results.steps) ELSE <<>>

StepStatus(k) == results.steps[k][2].status

FailedSteps == {k \in 1..Len(results.steps) : StepStatus(k) = "failed"}

\* stage k of StageOrder is recorded as failed
StageFailed(k) ==
    /\ Called
    /\ HasKey(results.steps, StageOrder[k])
    /\ Get(results.steps, StageOrder[k]).status = "failed"

\* stage k of StageOrder is recorded as success
StageSucceeded(k) ==
    /\ Called
    /\ HasKey(results.steps, StageOrder[k])
    /\ Get(results.steps, StageOrder[k]).status = "success"

GatingFailed == StageFailed(1) \/ StageFailed(2)

Invoked(k) == \E i \in 1..Len(calls) : calls[i] = ExecutorOrder[k]

-----------------------------------------------------------------------------
\* C1: once a gating stage (dolar_collection, dolar_analysis) is recorded as
\* failed, the call has returned, the executors invoked are exactly those of
\* stages 1..K, and `steps` has exactly K entries, the last one being the failed
\* stage, K being the stage's position. No state of the run has more.
C1_GatingFailureAborts ==
    \A k \in 1..2 :
        StageFailed(k) =>
            /\ Returned
            /\ calls = SubSeq(ExecutorOrder, 1, k)
            /\ Len(results.steps) = k
            /\ StepNames = SubSeq(StageOrder, 1, k)
            /\ StepStatus(k) = "failed"

\* dolar_analysis failed after dolar_collection succeeded: K = 2
C1_Witness ==
    /\ Returned
    /\ StageSucceeded(1)
    /\ StageFailed(2)
    /\ Len(calls) = 2

\* C2: a result returned after a gating stage failed has status 'failed'.
C2_GatingFailureIsFailed ==
    (Returned /\ GatingFailed) => results.status = "failed"

\* C3: when all three stages succeed the returned result has status
\* 'completed', no errors, and exactly the three steps in declared order, each
\* a success.
C3_AllSucceedCompleted ==
    (Returned /\ StageSucceeded(1) /\ StageSucceeded(2) /\ StageSucceeded(3)) =>
        /\ results.status = "completed"
        /\ results.errors = <<>>
        /\ StepNames = StageOrder
        /\ \A k \in 1..3 : StepStatus(k) = "success"

\* C4: when dolar_collection and dolar_analysis succeed and pdf_generation
\* fails, the returned result has status 'completed_with_errors', three steps
\* (success, success, failed) and exactly one entry in `errors`.
C4_TerminalFailureCompletedWithErrors ==
    (Returned /\ StageSucceeded(1) /\ StageSucceeded(2) /\ StageFailed(3)) =>
        /\ results.status = "completed_with_errors"
        /\ StepNames = StageOrder
        /\ Len(results.errors) = 1

\* C5: in every returned result, `errors` has as many entries as `steps` has
\* failed entries.
C5_ErrorsMatchFailedSteps ==
    Returned => Len(results.errors) = Cardinality(FailedSteps)

C7_ReturnedResultHasEndTime ==
    Returned => {"status", "steps", "errors", "start_time", "end_time"} \subseteq DOMAIN results

\* C8: a returned result has status 'failed' only if its last step is a
\* failed dolar_collection or a failed dolar_analysis.
C8_FailedOnlyOnGatingAbort ==
    (Returned /\ results.status = "failed") =>
        /\ results.steps # <<>>
        /\ StepStatus(Len(results.steps)) = "failed"
        /\ StepNames[Len(results.steps)] \in {"dolar_collection", "dolar_analysis"}

\* C9: when the call returns, `steps` has an entry for a stage exactly when
\* that stage's executor was invoked during the call.
C9_StepRecordIffInvoked ==
    Returned => \A k \in 1..3 : HasKey(results.steps, StageOrder[k]) <=> Invoked(k)

\* the PDF stage was reached: three executors invoked, three records
C9_Witness ==
    /\ Returned
    /\ Len(calls) = 3
    /\ Len(results.steps) = 3

\* C10: every step record has an output (output_data or output_file) exactly
\* when its status is success, and an error message exactly when its status is
\* failed.
C10_OutputIffSuccessErrorIffFailed ==
    Called =>
        \A k \in 1..Len(results.steps) :
            LET rec == results.steps[k][2]
            IN  /\ StepStatus(k) \in {"success", "failed"}
                /\ ({"output_data", "output_file"} \cap DOMAIN rec # {}) <=> StepStatus(k) = "success"
                /\ ("error" \in DOMAIN rec) <=> StepStatus(k) = "failed"

\* a result holding a success record and a failed record
C10_Witness ==
    /\ Returned
    /\ StageSucceeded(1)
    /\ StageSucceeded(2)
    /\ StageFailed(3)
    /\ results.status = "completed_with_errors"

\* C11: in every state of a call the keys of `steps`, in insertion order, are
\* the first stages of the declared order, and stage by stage that is the
\* order in which the executors were invoked.
C11_StepsFollowStageOrder ==
    Called =>
        /\ StepNames = SubSeq(StageOrder, 1, Len(results.steps))
        /\ calls = SubSeq(ExecutorOrder, 1, Len(calls))
        /\ Len(results.steps) <= Len(calls)

\* all three stages were executed and recorded
C11_Witness ==
    /\ Called
    /\ StepNames = StageOrder
    /\ calls = ExecutorOrder

\* C12: at most one stage executor is in flight; _execute_dolar_analysis is
\* invoked only after _execute_dolar_collector has returned, and
\* _execute_pdf_generation only after _execute_dolar_analysis has returned.
C12_OneStageInFlight ==
    /\ Cardinality(inflight) <= 1
    /\ Invoked(2) => HasKey(results.steps, "dolar_collection")
    /\ Invoked(3) =>
           /\ "_execute_dolar_analysis" \notin inflight
           /\ HasKey(results.steps, "dolar_analysis")

\* the PDF stage was invoked after the analysis had been in flight and returned
C12_Witness ==
    /\ Invoked(3)
    /\ inflight = {}
    /\ StageSucceeded(2)

\* C13: the argument of _execute_dolar_analysis is the output_data of the
\* success record of dolar_collection, the argument of
\* _execute_pdf_generation is the output_file of the success record of
\* dolar_analysis, and no executor is given the output of a failed stage.
C13_DataFlowsForwardOnSuccess ==
    \A i \in 1..Len(calls) :
        /\ calls[i] = "_execute_dolar_analysis" =>
               /\ StageSucceeded(1)
               /\ handed[i] = Some(Get(results.steps, "dolar_collection").output_data)
        /\ calls[i] = "_execute_pdf_generation" =>
               /\ StageSucceeded(2)
               /\ handed[i] = Some(Get(results.steps, "dolar_analysis").output_file)

\* both hand-overs happened
C13_Witness ==
    /\ Len(calls) = 3
    /\ handed[2] # None
    /\ handed[3] # None

\* C14: within a call, a step of the program leaves every step record and
\* every errors entry already written where and as it was.
C14_StepsAndErrorsAppendOnly ==
    [][(Called /\ runs' = runs) =>
          /\ Len(results.steps) <= Len(results'.steps)
          /\ SubSeq(results'.steps, 1, Len(results.steps)) = results.steps
          /\ Len(results.errors) <= Len(results'.errors)
          /\ SubSeq(results'.errors, 1, Len(results.errors)) = results.errors]_vars

\* the handler ran after the PDF stage had failed: two earlier success
\* records and an earlier errors entry are in the result
C14_Witness ==
    /\ Returned
    /\ results.status = "failed"
    /\ StageSucceeded(1)
    /\ StageSucceeded(2)
    /\ StageFailed(3)
    /\ Len(results.errors) = 2

\* C15: no executor is invoked twice in a call.
C15_NoRetries ==
    \A i, j \in 1..Len(calls) : calls[i] = calls[j] => i = j

\* dolar_collection failed and the call returned after that one invocation
C15_Witness ==
    /\ Returned
    /\ StageFailed(1)
    /\ calls = <<"_execute_dolar_collector">>

\* the entries the current call has added to execution_log
AddedLog == SubSeq(execution_log, log_start + 1, Len(execution_log))

\* C16: the entries a call adds to execution_log have the length, order, stage
\* names and statuses of its `steps`.
C16_LogMirrorsSteps ==
    Called =>
        /\ Len(AddedLog) = Len(results.steps)
        /\ \A k \in 1..Len(results.steps) :
               /\ AddedLog[k].step = StepNames[k]
               /\ AddedLog[k].status = StepStatus(k)

\* a second call on the orchestrator has logged a success and a failure
C16_Witness ==
    /\ Returned
    /\ log_start > 0
    /\ StageSucceeded(1)
    /\ StageFailed(2)

\* C17: dolar_collection is recorded as success only when the response was a
\* non-empty list of quote records (any other response, as a network error or
\* a timeout, leaves it failed), and after a failed dolar_collection
\* _execute_dolar_analysis is not invoked.
C17_SourceFailureFailsCollection ==
    /\ StageSucceeded(1) =>
           LET data == Get(results.steps, "dolar_collection").output_data
           IN  /\ data # <<>>
               /\ \A i \in 1..Len(data) : data[i] \in QuoteRecords
    /\ StageFailed(1) => ~Invoked(2)

\* C18: when the language model raised during a sub-analysis or the summary,
\* or the data handed to the analyst holds an item that is no quote record,
\* dolar_analysis is recorded as failed and _execute_pdf_generation is not
\* invoked.
C18_ReportBuilderFailureFailsAnalysis ==
    (/\ Called
     /\ HasKey(results.steps, "dolar_analysis")
     /\ \/ "language_model" \in raisedIn
        \/ \E i \in 1..Len(dolar_data[1]) : dolar_data[1][i] \notin QuoteRecords)
    => (StageFailed(2) /\ ~Invoked(3))

\* C19: what get_system_status reports during or after a call, and the log
\* entries the call has, hold nothing an earlier call recorded.
C19_NothingSharedAcrossRuns ==
    Called =>
        /\ Len(last_execution_log(execution_log)) <= Len(AddedLog)
        /\ log_start = 0

\* the handler of lines 153-158 ran: it alone sets status 'failed'
HandlerRan == Returned /\ results.status = "failed"

\* C21: when the handler ran, the returned result has status 'failed', its
\* last errors entry (and no other) begins with 'Error critico:', end_time is
\* set, execution_time_seconds is absent, and `steps` holds what the stages
\* recorded, one record per log entry of the call.
C21_HandlerResult ==
    HandlerRan =>
        /\ results.errors # <<>>
        /\ results.errors[Len(results.errors)] = "Error critico: UnicodeEncodeError"
        /\ \A i \in 1..(Len(results.errors) - 1) :
               results.errors[i] # "Error critico: UnicodeEncodeError"
        /\ "end_time" \in DOMAIN results
        /\ "execution_time_seconds" \notin DOMAIN results
        /\ Len(results.steps) = Len(AddedLog)

\* C22: the collection stage is recorded as success exactly when
\* get_dolar_data returned a non-empty value, and then with no errors entry.
C22_CollectionSucceedsIffFetched ==
    collected # None =>
        /\ StageSucceeded(1) <=> collected[1] # <<>>
        /\ collected[1] # <<>> =>
               \A i \in 1..Len(results.errors) :
                   results.errors[i] # "Recoleccion de datos DolarAPI fallo"

\* the file at path p holds what save_to_json wrote
IsSnapshot(fs, p) ==
    p \in DOMAIN fs /\ "fuente" \in DOMAIN fs[p]

\* the path save_to_json used in the current call: the snapshot is written at
\* the second at which the success record of the collection is stamped
CollectedAt == SnapshotPath(Get(results.steps, "dolar_collection").timestamp)

\* C23: once the collection succeeded and its snapshot is on disk, no later
\* step of the call removes the snapshot or changes its content: the temporary
\* file of stage 2 is never written to, or removed from, the snapshot's path.
C23_SnapshotSurvivesRun ==
    [][(StageSucceeded(1) /\ IsSnapshot(files, CollectedAt) /\ runs' = runs)
          => (IsSnapshot(files', CollectedAt)
              /\ files'[CollectedAt] = files[CollectedAt])]_vars

\* C24: when _execute_dolar_analysis returns, the temporary file it created
\* is not on disk.
C24_TempFileRemovedOnReturn ==
    [][(pc = AwaitAnalysis /\ pc' # AwaitAnalysis /\ temp_data_file # None)
          => temp_data_file[1] \notin DOMAIN files']_vars

\* the output_file recorded for stage k
OutputFile(k) == Get(results.steps, StageOrder[k]).output_file

\* what the agent of stage k writes: a report with data_source, a PDF on A4
WrittenBy(k, content) ==
    IF k = 2 THEN "data_source" \in DOMAIN content ELSE "pagesize" \in DOMAIN content

\* C25: a stage of the analyst or of the PDF agent recorded as success names,
\* as output_file, a non-empty path at which the file its agent writes is on
\* disk; a failed write therefore never yields a success record.
C25_SuccessOutputWasWritten ==
    \A k \in {2, 3} :
        StageSucceeded(k) =>
            /\ OutputFile(k) # ""
            /\ OutputFile(k) \in DOMAIN files
            /\ WrittenBy(k, files[OutputFile(k)])

\* a call whose report was written and whose PDF could not be built
C25_Witness ==
    /\ Returned
    /\ StageSucceeded(2)
    /\ StageFailed(3)
    /\ "pdf_generation" \notin raisedIn
    /\ OutputFile(2) \in DOMAIN files

\* the calls main has made so far
HostCalled(name) == name \in Range(host.trace)

\* C26: the host holds an orchestrator only if all three agents were
\* initialised; a construction in which an agent failed leaves the host without
\* orchestrator and is never followed by a run; every status an orchestrator
\* reports, or would report, has system_ready = true.
C26_ConstructionAllOrNothing ==
    /\ host.orchestrator =>
           /\ Len(agents) = 3
           /\ Range(agents) = {"dolar_collector", "dolar_analyst", "pdf_generator"}
           /\ get_system_status(agents, execution_log).system_ready
    /\ (HostCalled("MultiAgentOrchestratorDolar") /\ Len(agents) < 3) =>
           /\ ~host.orchestrator
           /\ ~HostCalled("get_system_status")
           /\ ~HostCalled("execute_full_analysis")
    /\ status_report # None => status_report[1].system_ready

\* the constructor of the third agent raised
C26_Witness ==
    /\ HostCalled("MultiAgentOrchestratorDolar")
    /\ agents = <<"dolar_collector", "dolar_analyst">>
    /\ ~host.orchestrator
    /\ host.at = "done"

\* C27: the status reports the last min(5, n) of the n entries logged so far,
\* in their order, and the call leaves execution_log and agents as they were.
C27_StatusReportsRecentLog ==
    [][(status_report' # status_report /\ status_report' # None) =>
          LET recent == status_report'[1].last_execution_log
              n == Len(execution_log)
              m == IF n < 5 THEN n ELSE 5
          IN  /\ Len(recent) = m
              /\ \A i \in 1..m : recent[i] = execution_log[n - m + i]
              /\ execution_log' = execution_log
              /\ agents' = agents]_vars

\* a status asked for after two runs that logged six entries
C27_Witness ==
    /\ status_report # None
    /\ Len(execution_log) = 6
    /\ Len(status_report[1].last_execution_log) = 5
    /\ status_report[1].last_execution_log[1] = execution_log[2]

\* the configuration main starts from is invalid: for the scripts that call
\* validate_config, no key or a directory that cannot be created; for
\* orchestrator_dolar.main, no key
ConfigInvalid ==
    \/ ~TruthyStr(host.api_key)
    \/ host.script \in ValidatingScripts /\ host.blocked # {}

\* C28: on an invalid configuration main never constructs an orchestrator and
\* never calls execute_full_analysis.
C28_NoRunOnInvalidConfig ==
    ConfigInvalid =>
        /\ ~HostCalled("MultiAgentOrchestratorDolar")
        /\ ~HostCalled("execute_full_analysis")
        /\ ~host.orchestrator
        /\ agents = <<>>
        /\ pc = "idle"
        /\ host.at \in {"main", "done"}

\* main has returned after validate_config reported a directory it could not
\* create, the key being set
C28_Witness ==
    /\ host.script \in ValidatingScripts
    /\ TruthyStr(host.api_key)
    /\ host.blocked = {"REPORTS_DIR"}
    /\ host.trace = <<"validate_config">>
    /\ host.at = "done"

\* the lines of the file are one header followed by rows only
HeaderFirstAndOnce(lines) ==
    /\ lines # <<>>
    /\ lines[1] = "header"
    /\ \A i \in 2..Len(lines) : lines[i] = "row"

\* the quote records of a value passed to save_to_csv
QuoteRecordsOf(data) == SelectSeq(data, LAMBDA item : item # "not_a_dict")

RECURSIVE RecordsPassed(_)
\* the number of quote records in the calls cs
RecordsPassed(cs) ==
    IF cs = <<>> THEN 0
    ELSE Len(QuoteRecordsOf(cs[Len(cs)].data)) + RecordsPassed(SubSeq(cs, 1, Len(cs) - 1))

Appended(c) == c.after - c.before - (IF c.before = 0 /\ c.after > 0 THEN 1 ELSE 0)

====
